---- MODULE Spec2Model ----
(***************************************************************************)
(* Introspection middleware for Fiber (introspect.go).                     *)
(*                                                                         *)
(* New(config) fixes a configuration and returns the request handler.  The *)
(* handler looks the token up, posts it to the introspection endpoint,     *)
(* classifies the answer and either stores a Session and calls c.Next or   *)
(* calls one of cfg.Unauthorized / cfg.ErrorHandler.                       *)
(*                                                                         *)
(* Strings that the code takes apart or puts together (the Authorization   *)
(* header, the scope string) are sequences of one-character strings, so    *)
(* that slicing, strings.Split and strings.Join are computed.  Strings the *)
(* code only compares or copies are TLA+ strings.                          *)
(***************************************************************************)
EXTENDS Integers, Sequences, FiniteSets, TLC

VARIABLES
    cfg,       \* the Config captured by the handler closure (shared)
    workers,   \* the goroutines on which the host runs the handler
    endpoint,  \* which answers the introspection endpoint may give
    ctx        \* per worker: the fiber.Ctx of the request it serves

vars == <<cfg, workers, endpoint, ctx>>

----------------------------------------------------------------------------
(* Bounds of the model *)

MaxWorkers == 2

----------------------------------------------------------------------------
(* Program constants *)

StatusOK == 200
StatusBadRequest == 400
StatusUnauthorized == 401
StatusInternalServerError == 500
ClientTimeoutMs == 500

errMalformedToken == "Missing or malformed token"
errNewRequest == "parse: missing protocol scheme"
errTransport == "transport failure or timeout"
errDecode == "json: cannot decode body"

Bearer == <<"B", "e", "a", "r", "e", "r">>
SP == " "

EmptyMap == [k \in {} |-> ""]

Put(m, k, v) == [x \in (DOMAIN m) \cup {k} |-> IF x = k THEN v ELSE m[x]]

Range(s) == {s[n] : n \in 1..Len(s)}

----------------------------------------------------------------------------
(* Helpers of the source *)

contains(s, v) == \E n \in 1..Len(s) : s[n] = v

\* strings.Split(s, " "): always at least one element; "" splits to [""].
RECURSIVE Split(_)
Split(s) ==
    IF \A n \in 1..Len(s) : s[n] # SP
    THEN <<s>>
    ELSE LET n == CHOOSE m \in 1..Len(s) :
                     s[m] = SP /\ \A j \in 1..(m - 1) : s[j] # SP
         IN <<SubSeq(s, 1, n - 1)>> \o Split(SubSeq(s, n + 1, Len(s)))

\* strings.Join(elems, " ")
RECURSIVE Join(_)
Join(elems) ==
    IF Len(elems) = 0 THEN <<>>
    ELSE IF Len(elems) = 1 THEN elems[1]
    ELSE elems[1] \o <<SP>> \o Join(Tail(elems))

\* TokenFromHeader(header, authScheme) applied to the header value auth.
TokenFromHeader(authScheme, auth) ==
    LET l == Len(authScheme)
    IN IF Len(auth) > l + 1 /\ SubSeq(auth, 1, l) = authScheme
       THEN SubSeq(auth, l + 2, Len(auth))
       ELSE <<>>

----------------------------------------------------------------------------
(* Configuration: the values a caller may pass to New *)

RD == <<"r", "d">>
WR == <<"w", "r">>
AD == <<"a", "d">>

ScopeLists == {<<>>, <<AD>>, <<RD, AD>>}
AudienceLists == {<<>>, <<"svc1">>, <<"svc1", "svc2">>}
IssuerLists == {<<>>, <<"iss1">>}

\* Config.ScopeStrategy: nil, or a caller's func([]string, string) bool.
Strategies == {"nil", "exact", "alwaysTrue"}

ScopeStrategy(name, granted, required) ==
    IF name = "exact" THEN contains(granted, required) ELSE TRUE

GoodURL == "http://idp/oauth2/introspect"
BadURL == ":idp"

\* The fields around the policy: all zero values, zero values with a URL
\* that does not parse, and every optional field set by the caller.
Surroundings ==
    { [IntrospectionURL |-> GoodURL, AuthScheme |-> <<>>, ContextKey |-> "",
       Unauthorized |-> "nil", TokenLookup |-> "nil", ErrorHandler |-> "nil"],
      [IntrospectionURL |-> BadURL, AuthScheme |-> <<>>, ContextKey |-> "",
       Unauthorized |-> "nil", TokenLookup |-> "nil", ErrorHandler |-> "nil"],
      [IntrospectionURL |-> GoodURL, AuthScheme |-> <<"T", "k">>,
       ContextKey |-> "session", Unauthorized |-> "custom",
       TokenLookup |-> "nil", ErrorHandler |-> "custom"] }

Configs ==
    { [IntrospectionURL |-> s.IntrospectionURL, AuthScheme |-> s.AuthScheme,
       ContextKey |-> s.ContextKey, Scopes |-> sc, Audience |-> au,
       Issuers |-> is, Unauthorized |-> s.Unauthorized, ScopeStrategy |-> st,
       TokenLookup |-> s.TokenLookup, ErrorHandler |-> s.ErrorHandler,
       IntrospectionRequestHeaders |-> EmptyMap,
       client |-> [Timeout |-> 0]] :
      s \in Surroundings, sc \in ScopeLists, au \in AudienceLists,
      is \in IssuerLists, st \in Strategies }

\* New, lines 90-122: the defaults and the HTTP client.
New(config) ==
    [config EXCEPT
        !.ContextKey = IF @ = "" THEN "user" ELSE @,
        !.AuthScheme = IF @ = <<>> THEN Bearer ELSE @,
        !.Unauthorized = IF @ = "nil" THEN "default" ELSE @,
        !.TokenLookup = IF @ = "nil" THEN "TokenFromHeader" ELSE @,
        !.ErrorHandler = IF @ = "nil" THEN "default" ELSE @,
        !.client = [Timeout |-> ClientTimeoutMs]]

----------------------------------------------------------------------------
(* Requests: the Authorization header of the inbound request *)

Headers ==
    { <<>>,
      Bearer,
      Bearer \o <<SP, "t", "1">>,
      <<"B", "a", "s", "i", "c", SP, "t", "1">>,
      <<"T", "k", SP, "t", "2">> }

----------------------------------------------------------------------------
(* The introspection endpoint's answers *)

GrantedScopes == {<<>>, RD \o <<SP>> \o WR, RD \o <<SP>> \o AD}

Absent == [present |-> FALSE]
Str(v) == [present |-> TRUE, v |-> v]
NoExt == [kind |-> "absent"]
NullExt == [kind |-> "null"]
Obj(m) == [kind |-> "object", m |-> m]

\* The fields that only feed the Session.
SessionFields ==
    { [sub |-> Absent, username |-> "alice", client_id |-> Absent, ext |-> NoExt],
      [sub |-> Str("u1"), username |-> "alice", client_id |-> Str("app"),
       ext |-> NullExt],
      [sub |-> Str("u1"), username |-> "", client_id |-> Str("app"),
       ext |-> Obj(EmptyMap)],
      [sub |-> Str(""), username |-> "bob", client_id |-> Str("app"),
       ext |-> Obj([k \in {"username", "tenant"} |->
                       IF k = "username" THEN "stale" ELSE "t1"])] }

\* JSON bodies of the shape of section 6 / the struct tags of lines 75-85.
Docs ==
    { [active |-> a, token_type |-> tt, aud |-> au, iss |-> is, scope |-> sc,
       sub |-> f.sub, username |-> f.username, client_id |-> f.client_id,
       ext |-> f.ext] :
      a \in BOOLEAN, tt \in {"", "access_token", "refresh_token"},
      au \in {<<>>, <<"svc1">>, <<"svc2", "svc1">>}, is \in {"iss1", "iss2"},
      sc \in GrantedScopes, f \in SessionFields }

Garbage == [valid |-> FALSE]
Json(d) == [valid |-> TRUE, doc |-> d]

GoodDoc ==
    [active |-> TRUE, token_type |-> "access_token", aud |-> <<"svc2", "svc1">>,
     iss |-> "iss1", scope |-> RD \o <<SP>> \o AD, sub |-> Str("u1"),
     username |-> "alice", client_id |-> Str("app"), ext |-> NullExt]

TransportFailure == [err |-> TRUE]
Response(code, body) == [err |-> FALSE, StatusCode |-> code, Body |-> body]

Outcomes ==
    {TransportFailure}
    \cup {Response(c, Garbage) : c \in {201, StatusUnauthorized, 503}}
    \cup {Response(StatusUnauthorized, Json(GoodDoc))}
    \cup {Response(StatusOK, Garbage)}
    \cup {Response(StatusOK, Json(d)) : d \in Docs}

\* json.NewDecoder(resp.Body).Decode(&i), lines 161-165 with the struct of
\* lines 75-85: absent members keep their zero values, null is a nil map.
Decode(body) ==
    IF ~body.valid THEN [ok |-> FALSE]
    ELSE LET d == body.doc
         IN [ok |-> TRUE,
             i |-> [Active |-> d.active,
                    Extra |-> IF d.ext.kind = "object"
                              THEN [nil |-> FALSE, m |-> d.ext.m]
                              ELSE [nil |-> TRUE, m |-> EmptyMap],
                    Subject |-> IF d.sub.present THEN d.sub.v ELSE "",
                    Username |-> d.username,
                    Audience |-> d.aud,
                    TokenType |-> d.token_type,
                    Issuer |-> d.iss,
                    ClientID |-> IF d.client_id.present THEN d.client_id.v ELSE "",
                    Scope |-> d.scope]]

----------------------------------------------------------------------------
(* The request context (fiber.Ctx) as the handler sees and changes it *)

NotSent == [made |-> FALSE, form |-> EmptyMap, headers |-> EmptyMap]

\* log: the calls the handler made, in order.  status/body: the response
\* written so far (0: none).  locals: c.Locals.  err: the error handed to
\* cfg.ErrorHandler.  sent: the outbound introspection request.
Idle ==
    [pc |-> "idle", header |-> <<>>, token |-> <<>>, sent |-> NotSent,
     answered |-> FALSE, resp |-> TransportFailure, log |-> <<>>,
     status |-> 0, body |-> "", locals |-> EmptyMap, err |-> ""]

Logged(x, call) == [x EXCEPT !.log = Append(@, call)]

Return(x) == [x EXCEPT !.pc = "done"]

\* The default cfg.ErrorHandler installed by New, lines 110-117.
DefaultErrorHandler(x, err) ==
    IF err = errMalformedToken
    THEN [x EXCEPT !.status = StatusBadRequest, !.body = err]
    ELSE [x EXCEPT !.status = StatusInternalServerError]

\* The default cfg.Unauthorized installed by New, lines 102-104.
DefaultUnauthorized(x) == [x EXCEPT !.status = StatusUnauthorized]

\* cfg.ErrorHandler(c, err): the default, or the caller's function, of
\* which only the call is known.
CallErrorHandler(cf, x, err) ==
    LET y == [Logged(x, "ErrorHandler") EXCEPT !.err = err]
    IN IF cf.ErrorHandler = "default" THEN DefaultErrorHandler(y, err) ELSE y

\* cfg.Unauthorized(c)
CallUnauthorized(cf, x) ==
    LET y == Logged(x, "Unauthorized")
    IN IF cf.Unauthorized = "default" THEN DefaultUnauthorized(y) ELSE y

----------------------------------------------------------------------------
(* The handler, lines 124-216 *)

\* cfg.TokenLookup(c), line 126; New installs TokenFromHeader on the
\* Authorization header with cfg.AuthScheme (line 107).
TokenLookup(cf, header) == TokenFromHeader(cf.AuthScheme, header)

\* line 127
TokenMissingNever(token) == FALSE
TokenMissing(token) == token = <<>>

\* lines 132-135: url.Values{"token": {token}} and the scope parameter.
RequestBodyAlwaysScope(cf, token) ==
    Put([k \in {"token"} |-> token], "scope", Join(cf.Scopes))
RequestBody(cf, token) ==
    LET body == [k \in {"token"} |-> token]
    IN IF cf.ScopeStrategy = "nil"
       THEN Put(body, "scope", Join(cf.Scopes))
       ELSE body

\* http.NewRequest fails when the URL does not parse, lines 137-141.
URLParses(url) == url # BadURL

\* lines 143-147
RequestHeaders(cf) ==
    Put(cf.IntrospectionRequestHeaders, "Content-Type",
        "application/x-www-form-urlencoded")

\* lines 126-149: up to the call of cfg.client.Do, where the handler blocks.
HandlerBegin(cf, header) ==
    LET token == TokenLookup(cf, header)
        x == [Logged(Idle, "TokenLookup") EXCEPT !.header = header,
                                                  !.token = token]
    IN IF TokenMissing(token)
       THEN Return(CallErrorHandler(cf, x, errMalformedToken))
       ELSE IF ~URLParses(cf.IntrospectionURL)
       THEN Return(CallErrorHandler(cf, Logged(x, "NewRequest"), errNewRequest))
       ELSE [Logged(Logged(x, "NewRequest"), "Do") EXCEPT
                !.pc = "waiting",
                !.sent = [made |-> TRUE, form |-> RequestBody(cf, token),
                          headers |-> RequestHeaders(cf)]]

\* line 156
DeclinedOnlyOnErrorStatus(resp) == resp.StatusCode >= 400
Declined(resp) == resp.StatusCode # StatusOK

\* line 167
TokenTypeOK(i) == ~(i.TokenType # "" /\ i.TokenType # "access_token")

\* line 172
ActiveOKForAccessTokens(i) == i.Active \/ i.TokenType = "access_token"
ActiveOK(i) == i.Active

\* lines 177-182
AudienceOKAny(cf, i) ==
    Len(cf.Audience) = 0
    \/ \E n \in 1..Len(cf.Audience) : contains(i.Audience, cf.Audience[n])
AudienceOK(cf, i) ==
    \A n \in 1..Len(cf.Audience) : contains(i.Audience, cf.Audience[n])

\* lines 184-189
IssuerOK(cf, i) == ~(Len(cf.Issuers) > 0 /\ ~contains(cf.Issuers, i.Issuer))

\* lines 191-198: only a configured strategy is applied.
ScopesOKDefaultExact(cf, i) ==
    \A n \in 1..Len(cf.Scopes) :
        IF cf.ScopeStrategy = "nil"
        THEN contains(Split(i.Scope), cf.Scopes[n])
        ELSE ScopeStrategy(cf.ScopeStrategy, Split(i.Scope), cf.Scopes[n])
ScopesOK(cf, i) ==
    cf.ScopeStrategy # "nil" =>
        \A n \in 1..Len(cf.Scopes) :
            ScopeStrategy(cf.ScopeStrategy, Split(i.Scope), cf.Scopes[n])

\* lines 167-198: the checks in the order of the code; the first that
\* fails calls cfg.Unauthorized and returns.
Validate(cf, i) ==
    IF ~TokenTypeOK(i) THEN FALSE
    ELSE IF ~ActiveOK(i) THEN FALSE
    ELSE IF ~AudienceOK(cf, i) THEN FALSE
    ELSE IF ~IssuerOK(cf, i) THEN FALSE
    ELSE ScopesOK(cf, i)

\* lines 200-211
BuildSessionKeepExisting(i) ==
    LET m0 == IF DOMAIN i.Extra.m = {} THEN EmptyMap ELSE i.Extra.m
        put(m, k, v) == IF k \in DOMAIN m THEN m ELSE Put(m, k, v)
    IN [Subject |-> i.Subject,
        Extra |-> put(put(put(m0, "username", i.Username),
                          "client_id", i.ClientID), "scope", i.Scope)]
BuildSession(i) ==
    LET m0 == IF DOMAIN i.Extra.m = {} THEN EmptyMap ELSE i.Extra.m
        m1 == Put(m0, "username", i.Username)
        m2 == Put(m1, "client_id", i.ClientID)
        m3 == Put(m2, "scope", i.Scope)
    IN [Subject |-> i.Subject, Extra |-> m3]

\* lines 200-215: store the Session, then c.Next().
AcceptWithoutNext(cf, x, i) ==
    [Logged(x, "Locals") EXCEPT !.locals = Put(@, cf.ContextKey, BuildSession(i))]
Accept(cf, x, i) ==
    Logged([Logged(x, "Locals") EXCEPT
               !.locals = Put(@, cf.ContextKey, BuildSession(i))],
           "Next")

\* lines 150-215: from the return of cfg.client.Do to the end; the
\* deferred resp.Body.Close() of line 154 runs last.
Resume(cf, x, resp) ==
    LET y == [x EXCEPT !.answered = TRUE, !.resp = resp]
    IN IF resp.err
       THEN Return(CallErrorHandler(cf, y, errTransport))
       ELSE IF Declined(resp)
       THEN Return(Logged(CallUnauthorized(cf, y), "Close"))
       ELSE LET d == Decode(resp.Body)
                z == Logged(y, "Decode")
            IN IF ~d.ok
               THEN Return(Logged(CallErrorHandler(cf, z, errDecode), "Close"))
               ELSE IF ~Validate(cf, d.i)
               THEN Return(Logged(CallUnauthorized(cf, z), "Close"))
               ELSE Return(Logged(Accept(cf, z, d.i), "Close"))

\* The handler's two steps with the configuration they leave behind: no
\* statement of lines 124-216 assigns to cfg or to cfg.client.
HandlerResumeOverwritingAudience(cf, x, resp) ==
    [ctx |-> Resume(cf, x, resp),
     cfg |-> IF resp.err \/ ~resp.Body.valid THEN cf
             ELSE [cf EXCEPT !.Audience = resp.Body.doc.aud]]
HandlerResume(cf, x, resp) == [ctx |-> Resume(cf, x, resp), cfg |-> cf]

----------------------------------------------------------------------------
(* The state machine *)

\* Representative answers for the concurrent runs.
FewOutcomes ==
    { TransportFailure,
      Response(503, Garbage),
      Response(StatusOK, Garbage),
      Response(StatusOK, Json(GoodDoc)),
      Response(StatusOK, Json([GoodDoc EXCEPT !.aud = <<"svc1">>])),
      Response(StatusOK, Json([GoodDoc EXCEPT !.active = FALSE])) }

\* The answers the endpoint may give to cfg.client.Do.
Answers(e) == IF e = "few" THEN FewOutcomes ELSE Outcomes

\* The host calls the handler with a fresh context for a request.
Begin(w) ==
    /\ ctx[w].pc = "idle"
    /\ \E header \in Headers :
           ctx' = [ctx EXCEPT ![w] = HandlerBegin(cfg, header)]
    /\ UNCHANGED <<cfg, workers, endpoint>>

\* cfg.client.Do returns and the handler runs to its end.
Respond(w) ==
    /\ ctx[w].pc = "waiting"
    /\ \E resp \in Answers(endpoint) :
           LET r == HandlerResume(cfg, ctx[w], resp)
           IN /\ ctx' = [ctx EXCEPT ![w] = r.ctx]
              /\ cfg' = r.cfg
    /\ UNCHANGED <<workers, endpoint>>

\* The request is over and its context is dropped.
Finish(w) ==
    /\ ctx[w].pc = "done"
    /\ ctx' = [ctx EXCEPT ![w] = Idle]
    /\ UNCHANGED <<cfg, workers, endpoint>>

Serve == \E w \in workers : Begin(w)

Answer == \E w \in workers : Respond(w)

Release == \E w \in workers : Finish(w)

Next == Serve \/ Answer \/ Release

\* One request at a time, any answer of the endpoint.
Init ==
    /\ cfg \in {New(c) : c \in Configs}
    /\ workers = {1}
    /\ endpoint = "any"
    /\ ctx = [w \in workers |-> Idle]

Spec == Init /\ [][Next]_vars

\* Concurrent requests through one middleware instance.
InitConc ==
    /\ cfg \in {New(c) : c \in Configs}
    /\ workers = 1..MaxWorkers
    /\ endpoint = "few"
    /\ ctx = [w \in workers |-> Idle]

SpecConc == InitConc /\ [][Next]_vars

----------------------------------------------------------------------------
(* Vocabulary of the properties *)

Count(log, call) == Cardinality({n \in 1..Len(log) : log[n] = call})

Terminals(x) ==
    Count(x.log, "Next") + Count(x.log, "Unauthorized")
        + Count(x.log, "ErrorHandler")

Stored(x) == DOMAIN x.locals # {}

Proceeded(x) == Count(x.log, "Next") > 0

\* The endpoint answered 200 with a body that decodes.
Decoded(x) ==
    /\ x.answered
    /\ ~x.resp.err
    /\ x.resp.StatusCode = 200
    /\ x.resp.Body.valid

Doc(x) == x.resp.Body.doc

\* The checks of the response policy other than the scopes, read off the
\* JSON document.
PolicyBesidesScopes(c, d) ==
    /\ d.token_type \in {"", "access_token"}
    /\ d.active
    /\ Range(c.Audience) \subseteq Range(d.aud)
    /\ (c.Issuers # <<>> => d.iss \in Range(c.Issuers))

\* The granted scopes as a set, a space-delimited string taken apart.
Granted(d) == Range(Split(d.scope))

PolicyAccepts(c, d) ==
    /\ PolicyBesidesScopes(c, d)
    /\ c.ScopeStrategy = "exact" => Range(c.Scopes) \subseteq Granted(d)

The3Keys == {"username", "client_id", "scope"}

----------------------------------------------------------------------------
(* C1 *)

\* C1: every request handled by the middleware ends with exactly one call
\* out of c.Next, cfg.Unauthorized and cfg.ErrorHandler: never two of them,
\* and the handler never returns without one.
C1_ExactlyOneTerminal ==
    \A w \in workers :
        /\ Terminals(ctx[w]) <= 1
        /\ ctx[w].pc = "done" => Terminals(ctx[w]) = 1
        /\ ctx[w].pc # "done" => Terminals(ctx[w]) = 0

C1_Witness ==
    \E w \in workers :
        /\ ctx[w].pc = "done"
        /\ Decoded(ctx[w])
        /\ Count(ctx[w].log, "Next") = 1
        /\ Count(ctx[w].log, "Unauthorized") = 0
        /\ Count(ctx[w].log, "ErrorHandler") = 0

----------------------------------------------------------------------------
(* C2 *)

\* C2: when the token lookup returns the empty string, the handler calls
\* cfg.ErrorHandler with errMalformedToken (the default one answers 400 with
\* the fixed message) and no request goes to the introspection endpoint.
C2_EmptyTokenIsMalformed ==
    \A w \in workers :
        (ctx[w].pc # "idle" /\ TokenLookup(cfg, ctx[w].header) = <<>>) =>
            /\ ctx[w].pc = "done"
            /\ ctx[w].log = <<"TokenLookup", "ErrorHandler">>
            /\ ctx[w].err = errMalformedToken
            /\ ~ctx[w].sent.made
            /\ ~ctx[w].answered
            /\ cfg.ErrorHandler = "default" =>
                   /\ ctx[w].status = 400
                   /\ ctx[w].body = "Missing or malformed token"

C2_Witness ==
    \E w \in workers :
        /\ ctx[w].pc = "done"
        /\ ctx[w].header # <<>>
        /\ TokenLookup(cfg, ctx[w].header) = <<>>
        /\ cfg.ErrorHandler = "default"
        /\ ctx[w].status = 400

----------------------------------------------------------------------------
(* C3 *)

\* C3: a Session is stored under the context key and the next handler is
\* called exactly when the endpoint answered 200 with a decodable body that
\* passes every check of the response policy (token type, active, audience,
\* issuer, and the configured scope strategy for every required scope); on
\* every other path nothing is stored and the next handler is not called.
C3_SessionIffPolicyAccepts ==
    \A w \in workers :
        /\ Stored(ctx[w]) <=> Proceeded(ctx[w])
        /\ Stored(ctx[w]) => DOMAIN ctx[w].locals = {cfg.ContextKey}
        /\ ctx[w].pc # "done" => ~Stored(ctx[w])
        /\ ctx[w].pc = "done" =>
               (Stored(ctx[w]) <=>
                    /\ Decoded(ctx[w])
                    /\ PolicyAccepts(cfg, Doc(ctx[w])))

C3_Witness ==
    \E w \in workers :
        /\ ctx[w].pc = "done"
        /\ Stored(ctx[w])
        /\ Len(cfg.Audience) = 2
        /\ Len(cfg.Issuers) = 1
        /\ cfg.ScopeStrategy = "exact"
        /\ Len(cfg.Scopes) = 2

----------------------------------------------------------------------------
(* C4 *)

\* C4: a decoded result with active = false is answered by cfg.Unauthorized,
\* whatever its other fields and whatever the configuration; no Session is
\* stored and the next handler is not called.
C4_InactiveIsUnauthorized ==
    \A w \in workers :
        (ctx[w].pc = "done" /\ Decoded(ctx[w]) /\ ~Doc(ctx[w]).active) =>
            /\ Count(ctx[w].log, "Unauthorized") = 1
            /\ ~Stored(ctx[w])
            /\ ~Proceeded(ctx[w])
            /\ Count(ctx[w].log, "Locals") = 0

\* An inactive result that would pass every other check.
C4_Witness ==
    \E w \in workers :
        /\ ctx[w].pc = "done"
        /\ Decoded(ctx[w])
        /\ ~Doc(ctx[w]).active
        /\ PolicyAccepts(cfg, [Doc(ctx[w]) EXCEPT !.active = TRUE])
        /\ Doc(ctx[w]).token_type = "access_token"
        /\ Count(ctx[w].log, "Unauthorized") = 1

----------------------------------------------------------------------------
(* C5 *)

\* C5 as stated: with no custom strategy configured the default is exact
\* membership, so an active result whose granted scopes miss a required
\* scope is answered by cfg.Unauthorized.
C5_DefaultIsExactMembership ==
    \A w \in workers :
        ( /\ ctx[w].pc = "done"
          /\ cfg.ScopeStrategy = "nil"
          /\ Decoded(ctx[w])
          /\ Doc(ctx[w]).active
          /\ ~(Range(cfg.Scopes) \subseteq Granted(Doc(ctx[w]))) ) =>
            /\ Count(ctx[w].log, "Unauthorized") = 1
            /\ ~Stored(ctx[w])

\* C5 (amended): with no custom strategy configured the handler checks no
\* scope itself: it sends the space-joined required scopes to the endpoint
\* as the scope parameter, and a decoded result is accepted exactly when
\* token type, active, audience and issuer pass, whatever scopes it grants.
C5_NoStrategyNoLocalScopeCheck ==
    \A w \in workers :
        ( /\ ctx[w].pc = "done"
          /\ cfg.ScopeStrategy = "nil"
          /\ Decoded(ctx[w]) ) =>
            /\ "scope" \in DOMAIN ctx[w].sent.form
            /\ Stored(ctx[w]) <=> PolicyBesidesScopes(cfg, Doc(ctx[w]))
            /\ Count(ctx[w].log, "Unauthorized") = 1
                   <=> ~PolicyBesidesScopes(cfg, Doc(ctx[w]))

\* Required [ad], granted "rd wr", no strategy: accepted.
C5_Witness ==
    \E w \in workers :
        /\ ctx[w].pc = "done"
        /\ cfg.ScopeStrategy = "nil"
        /\ cfg.Scopes = <<AD>>
        /\ Decoded(ctx[w])
        /\ Doc(ctx[w]).scope = <<"r", "d", " ", "w", "r">>
        /\ Stored(ctx[w])
        /\ Proceeded(ctx[w])

----------------------------------------------------------------------------
(* C6 *)

\* C6: the outbound body always carries the token; it carries the scope
\* parameter, the required scopes joined by spaces, exactly when no custom
\* strategy is configured; and with a strategy that always returns true a
\* result passing the other checks is accepted whatever scopes it grants.
C6_ScopeParameterIffNoStrategy ==
    \A w \in workers :
        /\ ctx[w].sent.made =>
               /\ "token" \in DOMAIN ctx[w].sent.form
               /\ ctx[w].sent.form["token"] = TokenLookup(cfg, ctx[w].header)
               /\ ctx[w].sent.form["token"] # <<>>
               /\ "scope" \in DOMAIN ctx[w].sent.form
                      <=> cfg.ScopeStrategy = "nil"
               /\ (cfg.ScopeStrategy = "nil" /\ cfg.Scopes # <<>>) =>
                      Split(ctx[w].sent.form["scope"]) = cfg.Scopes
               /\ (cfg.ScopeStrategy = "nil" /\ cfg.Scopes = <<>>) =>
                      ctx[w].sent.form["scope"] = <<>>
        /\ ( /\ ctx[w].pc = "done"
             /\ cfg.ScopeStrategy = "alwaysTrue"
             /\ Decoded(ctx[w])
             /\ PolicyBesidesScopes(cfg, Doc(ctx[w])) ) =>
               Stored(ctx[w]) /\ Proceeded(ctx[w])

C6_Witness ==
    \E w \in workers :
        /\ ctx[w].pc = "done"
        /\ cfg.ScopeStrategy = "alwaysTrue"
        /\ cfg.Scopes = <<RD, AD>>
        /\ Decoded(ctx[w])
        /\ Doc(ctx[w]).scope = <<>>
        /\ Stored(ctx[w])
        /\ DOMAIN ctx[w].sent.form = {"token"}

----------------------------------------------------------------------------
(* C7 *)

\* C7: a non-200 status is answered by cfg.Unauthorized, never by the error
\* handler, and its body is not decoded; a transport failure and a 200 with
\* an undecodable body are answered by cfg.ErrorHandler (500 by default),
\* never by cfg.Unauthorized.
C7_FailureClassification ==
    \A w \in workers :
        (ctx[w].pc = "done" /\ ctx[w].answered) =>
            /\ (~ctx[w].resp.err /\ ctx[w].resp.StatusCode # 200) =>
                   /\ Count(ctx[w].log, "Unauthorized") = 1
                   /\ Count(ctx[w].log, "ErrorHandler") = 0
                   /\ Count(ctx[w].log, "Decode") = 0
                   /\ ctx[w].err = ""
                   /\ cfg.Unauthorized = "default" => ctx[w].status = 401
            /\ (\/ ctx[w].resp.err
                \/ ctx[w].resp.StatusCode = 200 /\ ~ctx[w].resp.Body.valid) =>
                   /\ Count(ctx[w].log, "ErrorHandler") = 1
                   /\ Count(ctx[w].log, "Unauthorized") = 0
                   /\ ctx[w].err # ""
                   /\ ctx[w].err # errMalformedToken
                   /\ cfg.ErrorHandler = "default" => ctx[w].status = 500

\* A non-200 answer whose body would have been accepted.
C7_Witness ==
    \E w \in workers :
        /\ ctx[w].pc = "done"
        /\ ctx[w].answered
        /\ ~ctx[w].resp.err
        /\ ctx[w].resp.StatusCode = 201
        /\ Count(ctx[w].log, "Unauthorized") = 1

----------------------------------------------------------------------------
(* C8 *)

\* The README's Config table documents Filter, "a function to skip
\* middleware", and SuccessHandler, "executed for a valid token".  A filter
\* a caller would pass: skip the requests without credentials.
Filter(header) == header = <<>>

\* C8: when the configured filter returns true for a request the whole
\* pipeline is bypassed (no token lookup, no introspection call, no
\* disposition handler), and on the accept path the success callback runs
\* after the Session is stored and before the next handler is called.
C8_FilterAndSuccessHandler ==
    \A w \in workers :
        /\ (ctx[w].pc # "idle" /\ Filter(ctx[w].header)) =>
               /\ Count(ctx[w].log, "TokenLookup") = 0
               /\ ~ctx[w].sent.made
               /\ Count(ctx[w].log, "Unauthorized") = 0
               /\ Count(ctx[w].log, "ErrorHandler") = 0
        /\ (ctx[w].pc = "done" /\ Stored(ctx[w])) =>
               \E n \in 1..Len(ctx[w].log) :
                   /\ n + 2 <= Len(ctx[w].log)
                   /\ ctx[w].log[n] = "Locals"
                   /\ ctx[w].log[n + 1] = "SuccessHandler"
                   /\ ctx[w].log[n + 2] = "Next"

----------------------------------------------------------------------------
(* C9 *)

\* C9: on every accept path the stored Session has the result's subject and
\* an Extra map holding username, client_id and scope with the values of
\* the result's top-level fields, over any same-named entries of ext, and
\* every other entry of ext; also when ext was absent, null or empty.
C9_SessionContents ==
    \A w \in workers :
        (ctx[w].pc = "done" /\ Stored(ctx[w])) =>
            LET d == Doc(ctx[w])
                s == ctx[w].locals[cfg.ContextKey]
                ext == IF d.ext.kind = "object" THEN d.ext.m ELSE EmptyMap
            IN /\ s.Subject = (IF d.sub.present THEN d.sub.v ELSE "")
               /\ DOMAIN s.Extra = The3Keys \cup DOMAIN ext
               /\ s.Extra["username"] = d.username
               /\ s.Extra["client_id"] =
                      (IF d.client_id.present THEN d.client_id.v ELSE "")
               /\ s.Extra["scope"] = d.scope
               /\ \A k \in (DOMAIN ext) \ The3Keys : s.Extra[k] = ext[k]

\* ext carried a username of its own and another entry.
C9_Witness ==
    \E w \in workers :
        /\ ctx[w].pc = "done"
        /\ Stored(ctx[w])
        /\ Doc(ctx[w]).ext.kind = "object"
        /\ DOMAIN Doc(ctx[w]).ext.m = {"username", "tenant"}
        /\ ctx[w].locals[cfg.ContextKey].Extra["username"] = "bob"
        /\ ctx[w].locals[cfg.ContextKey].Extra["tenant"] = "t1"

----------------------------------------------------------------------------
(* C10 *)

\* Two requests that carried the same header and got the same answer ended
\* the same way: same calls, same response, same Session.
SameRequestSameEnd ==
    \A v, w \in workers :
        ( /\ ctx[v].pc = "done"
          /\ ctx[w].pc = "done"
          /\ ctx[v].header = ctx[w].header
          /\ ctx[v].answered = ctx[w].answered
          /\ ctx[v].resp = ctx[w].resp ) =>
            /\ ctx[v].log = ctx[w].log
            /\ ctx[v].status = ctx[w].status
            /\ ctx[v].body = ctx[w].body
            /\ ctx[v].err = ctx[w].err
            /\ ctx[v].locals = ctx[w].locals
            /\ ctx[v].sent = ctx[w].sent

\* C10: under any interleaving of requests through one middleware instance
\* no step writes the shared configuration or the shared HTTP client, and
\* identical requests with identical endpoint answers end identically,
\* however many requests ran before or run alongside.
C10_ConfigReadOnlyAndDeterministic ==
    /\ [][cfg' = cfg]_vars
    /\ []SameRequestSameEnd

\* Two workers served the same request, got the same accepting answer and
\* both finished, under the client New built.
C10_Witness ==
    \E v, w \in workers :
        /\ v # w
        /\ ctx[v].pc = "done"
        /\ ctx[w].pc = "done"
        /\ ctx[v].header = ctx[w].header
        /\ Decoded(ctx[v])
        /\ Decoded(ctx[w])
        /\ ctx[v].resp = ctx[w].resp
        /\ Stored(ctx[v])
        /\ cfg.client.Timeout = 500

====
